---- MODULE Spec2Model ----
(***************************************************************************)
(* Model of scripts/episodic_mbrl_client.py: the main thread (task         *)
(* registration and the episode-collection loop) and the optimization      *)
(* jobs mc_pilco_polopt and http_polopt, which run in background threads   *)
(* and share the module globals `state`, `task_state` and the queue        *)
(* `tasks` with the main thread.                                           *)
(*                                                                         *)
(* Policy parameters are sequences: <<>> is the empty list that an         *)
(* exploration episode records, <<v>> the learned policy's parameters in   *)
(* their v-th version.                                                     *)
(***************************************************************************)
EXTENDS Naturals, Integers, Sequences, FiniteSets, TLC

VARIABLES
    task_list,     \* iteration order of config['tasks'] (line 248)
    config,        \* config['tasks'][name]: n_opt, polopt_fn, initial_random_trials
    configured,    \* initial_random_trials of each task as the file gave it
    stored,        \* what ExperienceDataset.load() finds on disk for each task
    task_id_bound, \* whether the global name `task_id` of line 282 resolves:
                   \* the module never assigns it, so it does only if the
                   \* configuration file binds it (its !numpy tags are
                   \* evaluated in the module's namespace, line 30)
    playback,      \* args.playback, the -p/--playback flag (lines 202-204)
    dequeues,      \* per task: times the loop took it from the queue while
                   \* its recorded state was not 'done'
    compiles,      \* per task: times a job entered the compile step (line 87)
    experience,    \* spec['experience'].policy_parameters, one entry per episode
    policy,        \* spec['policy'] parameters of each task
    loss_fn,       \* spec['optimizer'].loss_fn is not None
    task_state,    \* the dict task_state (name -> state)
    tasks,         \* the Queue `tasks`
    state,         \* the module global `state`
    name,          \* the module global `name` (task the loop holds)
    pol,           \* acting policy chosen at lines 299-312
    polopt_fn,     \* optimization strategy chosen at lines 299-312
    mainpc,        \* position of the main thread
    next_task,     \* index into task_list of the registration loop
    jobs,          \* the running optimization invocations of each task
                   \* (polopt_threads and the synchronous call of line 267)
    env_params,    \* task whose plant parameters the robot is configured with
    robot_users,   \* who is driving the robot right now
    server_tasks,  \* tasks registered at the remote service
    passes,        \* per task: optimization passes completed
    trained_after, \* per task: the episode counts after which a job trained
    done_puts      \* per task: queue puts made while its state was 'done'

vars == <<task_list, configured, config, stored, task_id_bound, playback,
          dequeues, compiles, experience, policy, loss_fn, task_state, tasks,
          state, name, pol, polopt_fn, mainpc, next_task, jobs, env_params,
          robot_users, server_tasks, passes, trained_after, done_puts>>

(***************************************************************************)
(* Bounds                                                                  *)
(***************************************************************************)
MaxTrials == 4        \* initial_random_trials of a single-task configuration
MaxTrialsMulti == 2   \* initial_random_trials in a two-task configuration
MaxNOpt == 2          \* n_opt
MaxStored == 1        \* learned-policy episodes found on disk at start-up
Slots == 2            \* optimization jobs of one task the model can hold

TaskLists == {<<"a">>, <<"a", "b">>, <<"done">>}
Names == {"a", "b", "done"}
None == "None"

Range(s) == {s[i] : i \in DOMAIN s}

\* The configurations explored: one task with up to MaxTrials random trials
\* and up to MaxStored stored episodes, or two tasks with up to
\* MaxTrialsMulti random trials each, a common n_opt and strategy (the
\* configuration's defaults) and nothing stored.
TrialsBound(list) == IF Len(list) > 1 THEN MaxTrialsMulti ELSE MaxTrials

StoredBound(list) == IF Len(list) > 1 THEN 0 ELSE MaxStored

\* episodes of one task the model follows
MaxEpisodes == TrialsBound(task_list) + MaxNOpt + StoredBound(task_list)

\* len([p for p in exp.policy_parameters if len(p) > 0])
RECURSIVE n_polopt_iters(_)
n_polopt_iters(pp) ==
    IF pp = <<>> THEN 0
    ELSE (IF Len(Head(pp)) > 0 THEN 1 ELSE 0) + n_polopt_iters(Tail(pp))

RECURSIVE Occurrences(_, _)
Occurrences(q, t) ==
    IF q = <<>> THEN 0
    ELSE (IF Head(q) = t THEN 1 ELSE 0) + Occurrences(Tail(q), t)

\* a counter the model follows up to MaxEpisodes + 1
Incr(n) == IF n <= MaxEpisodes THEN n + 1 ELSE n

\* a job slot: fn, pc, sync and ep describe the invocation; st and before
\* remember the global `state` and the task's recorded state at its launch
Idle == [fn |-> None, pc |-> "idle", sync |-> FALSE, ep |-> 0,
         st |-> None, before |-> None]

Active(j) == j.pc \notin {"idle", "raised"}

ActiveJobs(t) == {k \in 1..Slots : Active(jobs[t][k])}

Specs(list) ==
    {c \in [Range(list) -> [n_opt : 1..MaxNOpt,
                            polopt_fn : {"mc_pilco_polopt", "http_polopt"},
                            initial_random_trials : 0..TrialsBound(list)]] :
        \A t, u \in Range(list) : /\ c[t].n_opt = c[u].n_opt
                                   /\ c[t].polopt_fn = c[u].polopt_fn}

\* the playback flag is explored with one task configured
PlaybackFlags(list) == IF Len(list) > 1 THEN {FALSE} ELSE BOOLEAN

\* an experience file holds k >= 0 learned-policy episodes
StoredExperience(list) ==
    {[i \in 1..k |-> <<1>>] : k \in 0..StoredBound(list)}

Init ==
    /\ task_list \in TaskLists
    /\ config \in Specs(task_list)
    /\ configured = [t \in Range(task_list) |-> config[t].initial_random_trials]
    /\ stored \in [Range(task_list) -> StoredExperience(task_list)]
    /\ task_id_bound \in BOOLEAN
    /\ playback \in PlaybackFlags(task_list)
    /\ dequeues = [t \in Range(task_list) |-> 0]
    /\ compiles = [t \in Range(task_list) |-> 0]
    /\ experience = [t \in Range(task_list) |-> <<>>]
    /\ policy = [t \in Range(task_list) |-> <<1>>]
    /\ loss_fn = [t \in Range(task_list) |-> FALSE]
    /\ task_state = <<>>
    /\ tasks = <<>>
    /\ state = None
    /\ name = None
    /\ pol = None
    /\ polopt_fn = None
    /\ mainpc = "populate"
    /\ next_task = 1
    /\ jobs = [t \in Range(task_list) |-> [k \in 1..Slots |-> Idle]]
    /\ env_params = task_list[1]
    /\ robot_users = {}
    /\ server_tasks = {}
    /\ passes = [t \in Range(task_list) |-> 0]
    /\ trained_after = [t \in Range(task_list) |-> {}]
    /\ done_puts = [t \in Range(task_list) |-> 0]

(***************************************************************************)
(* Main thread: task registration (lines 247-269)                          *)
(***************************************************************************)
FreeSlot(t) == CHOOSE k \in 1..Slots :
                  /\ jobs[t][k].pc = "idle"
                  /\ \A l \in 1..(k - 1) : jobs[t][l].pc # "idle"

\* a call of polopt_fn(name, spec, tasks) begins; the model holds up to Slots
\* invocations of one task at a time
StartJob(t, fn, sync, ep) ==
    /\ \E k \in 1..Slots : jobs[t][k].pc = "idle"
    /\ jobs' = [jobs EXCEPT ![t][FreeSlot(t)] =
           [fn |-> fn, sync |-> sync, ep |-> ep, st |-> state,
            before |-> IF t \in DOMAIN task_state THEN task_state[t]
                       ELSE "init",
            pc |-> IF fn = "mc_pilco_polopt" THEN "check_state"
                   ELSE "get_status"]]

AfterRegistration == IF next_task = Len(task_list) THEN "loop" ELSE "populate"

\* variant of RegisterTask: every task is put on the queue, http_polopt is not called
RegisterTaskPutOnly ==
    /\ mainpc = "populate"
    /\ LET t == task_list[next_task]
           exp == stored[t]
       IN  /\ experience' = [experience EXCEPT ![t] = exp]
           /\ policy' = [policy EXCEPT
                   ![t] = IF Len(exp) > 0 THEN exp[Len(exp)] ELSE @]
           /\ task_state' = task_state @@ (t :> "init")
           /\ IF FALSE
              THEN \* http_polopt(task_name, spec, tasks), called in this thread
                   /\ StartJob(t, "http_polopt", TRUE, Len(exp))
                   /\ mainpc' = "http_polopt"
                   /\ UNCHANGED <<tasks, next_task>>
              ELSE /\ tasks' = Append(tasks, t)
                   /\ mainpc' = AfterRegistration
                   /\ next_task' = next_task + 1
                   /\ UNCHANGED jobs
    /\ UNCHANGED <<task_list, configured, config, stored, task_id_bound,
                   playback, dequeues, compiles, loss_fn, state, name, pol,
                   polopt_fn, env_params, robot_users, server_tasks, passes,
                   trained_after, done_puts>>

\* one iteration of `for task_name in config['tasks']`
RegisterTask ==
    /\ mainpc = "populate"
    /\ LET t == task_list[next_task]
           exp == stored[t]
       IN  /\ experience' = [experience EXCEPT ![t] = exp]
           /\ policy' = [policy EXCEPT
                   ![t] = IF Len(exp) > 0 THEN exp[Len(exp)] ELSE @]
           /\ task_state' = task_state @@ (t :> "init")
           /\ IF Len(exp) > 0
              THEN \* http_polopt(task_name, spec, tasks), called in this thread
                   /\ StartJob(t, "http_polopt", TRUE, Len(exp))
                   /\ mainpc' = "http_polopt"
                   /\ UNCHANGED <<tasks, next_task>>
              ELSE /\ tasks' = Append(tasks, t)
                   /\ mainpc' = AfterRegistration
                   /\ next_task' = next_task + 1
                   /\ UNCHANGED jobs
    /\ UNCHANGED <<task_list, configured, config, stored, task_id_bound,
                   playback, dequeues, compiles, loss_fn, state, name, pol,
                   polopt_fn, env_params, robot_users, server_tasks, passes,
                   trained_after, done_puts>>

(***************************************************************************)
(* Main thread: the loop of lines 271-341                                  *)
(***************************************************************************)
\* all([st == 'done' for st in task_state]): iterating a dict yields its keys
AllTasksDone == \A st \in DOMAIN task_state : st = "done"

\* line 272, the loop condition is false
ExitLoop ==
    /\ mainpc = "loop"
    /\ AllTasksDone
    /\ mainpc' = "exited"
    /\ UNCHANGED <<task_list, configured, config, stored, task_id_bound,
                   playback, dequeues, compiles, experience, policy, loss_fn,
                   task_state, tasks, state, name, pol, polopt_fn, next_task,
                   jobs, env_params, robot_users, server_tasks, passes,
                   trained_after, done_puts>>

\* lines 272-281: name, spec = tasks.get(timeout=5), retried while the queue
\* is empty
Dequeue ==
    /\ mainpc = "loop"
    /\ ~AllTasksDone
    /\ tasks # <<>>
    /\ name' = Head(tasks)
    /\ tasks' = Tail(tasks)
    /\ mainpc' = "check_done"
    /\ dequeues' = [dequeues EXCEPT ![Head(tasks)] =
           IF task_state[Head(tasks)] = "done" THEN @ ELSE Incr(@)]
    /\ UNCHANGED <<task_list, configured, config, stored, task_id_bound,
                   playback, compiles, experience, policy, loss_fn,
                   task_state, state, pol, polopt_fn, next_task, jobs,
                   env_params, robot_users, server_tasks, passes,
                   trained_after, done_puts>>

\* the model follows a task for MaxEpisodes episodes
GetTask ==
    /\ tasks # <<>>
    /\ \/ Len(experience[Head(tasks)]) < MaxEpisodes
       \/ task_state[Head(tasks)] = "done"
    /\ Dequeue

\* line 282: the name task_id is bound nowhere in the module, so evaluating
\* it raises NameError and ends the main thread
SetLogfileRaises ==
    /\ mainpc = "check_done"
    /\ ~task_id_bound
    /\ mainpc' = "raised"
    /\ UNCHANGED <<task_list, configured, config, stored, task_id_bound,
                   playback, dequeues, compiles, experience, policy, loss_fn,
                   task_state, tasks, state, name, pol, polopt_fn, next_task,
                   jobs, env_params, robot_users, server_tasks, passes,
                   trained_after, done_puts>>

\* variant of CheckDone: a done task is not passed over
CheckDoneNoSkip ==
    /\ mainpc = "check_done"
    /\ task_id_bound
    /\ state' = task_state[name]
    /\ mainpc' = "load_policy"
    /\ UNCHANGED <<task_list, configured, config, stored, task_id_bound,
                   playback, dequeues, compiles, experience, policy, loss_fn,
                   task_state, tasks, name, pol, polopt_fn, next_task, jobs,
                   env_params, robot_users, server_tasks, passes,
                   trained_after, done_puts>>

\* variant of CheckDone: a done task is passed over and put back on the queue
CheckDoneRequeue ==
    /\ mainpc = "check_done"
    /\ task_id_bound
    /\ state' = task_state[name]
    /\ tasks' = IF task_state[name] = "done" THEN Append(tasks, name) ELSE tasks
    /\ mainpc' = IF task_state[name] = "done" THEN "loop" ELSE "load_policy"
    /\ UNCHANGED <<task_list, configured, config, stored, task_id_bound,
                   playback, dequeues, compiles, experience, policy, loss_fn,
                   task_state, name, pol, polopt_fn, next_task, jobs,
                   env_params, robot_users, server_tasks, passes,
                   trained_after, done_puts>>

\* lines 282-289: state = task_state[name]; a done task is passed over
CheckDone ==
    /\ mainpc = "check_done"
    /\ task_id_bound
    /\ state' = task_state[name]
    /\ mainpc' = IF task_state[name] = "done" THEN "loop" ELSE "load_policy"
    /\ UNCHANGED <<task_list, configured, config, stored, task_id_bound,
                   playback, dequeues, compiles, experience, policy, loss_fn,
                   task_state, tasks, name, pol, polopt_fn, next_task, jobs,
                   env_params, robot_users, server_tasks, passes,
                   trained_after, done_puts>>

\* variant of LoadPolicy: lines 305-306 are missing, state is not set to 'ready' after the last random trial
LoadPolicyStateNotReady ==
    /\ mainpc = "load_policy"
    /\ env_params' = name
    /\ robot_users' = robot_users \cup {[thread |-> "main", task |-> name]}
    /\ IF state = "init" /\ config[name].initial_random_trials > 0
       THEN /\ pol' = "RandPolicy"
            /\ polopt_fn' = "mc_pilco_polopt"
            /\ config' = [config EXCEPT ![name].initial_random_trials = @ - 1]
            /\ state' = state
       ELSE /\ pol' = "policy"
            /\ polopt_fn' = config[name].polopt_fn
            /\ UNCHANGED <<config, state>>
    /\ mainpc' = "apply_controller"
    /\ UNCHANGED <<task_list, configured, stored, task_id_bound, playback,
                   dequeues, compiles, experience, policy, loss_fn,
                   task_state, tasks, name, next_task, jobs, server_tasks,
                   passes, trained_after, done_puts>>

\* lines 294-312: env.init_params, then the choice of the acting policy
LoadPolicy ==
    /\ mainpc = "load_policy"
    /\ env_params' = name
    /\ robot_users' = robot_users \cup {[thread |-> "main", task |-> name]}
    /\ IF state = "init" /\ config[name].initial_random_trials > 0
       THEN /\ pol' = "RandPolicy"
            /\ polopt_fn' = "mc_pilco_polopt"
            /\ config' = [config EXCEPT ![name].initial_random_trials = @ - 1]
            /\ state' = IF config[name].initial_random_trials - 1 < 1
                        THEN "ready" ELSE state
       ELSE /\ pol' = "policy"
            /\ polopt_fn' = config[name].polopt_fn
            /\ UNCHANGED <<config, state>>
    /\ mainpc' = "apply_controller"
    /\ UNCHANGED <<task_list, configured, stored, task_id_bound, playback,
                   dequeues, compiles, experience, policy, loss_fn,
                   task_state, tasks, name, next_task, jobs, server_tasks,
                   passes, trained_after, done_puts>>

\* exp.append_episode(..., pol_params, ts), followed up to MaxEpisodes entries
AppendEpisode(exp, pol_params) ==
    IF Len(exp) < MaxEpisodes THEN Append(exp, pol_params) ELSE exp

\* variant of CollectEpisode: the loop puts the task back itself after starting the thread
CollectEpisodeRequeue ==
    /\ mainpc = "apply_controller"
    /\ LET pol_params == IF pol = "policy" THEN policy[name] ELSE <<>>
           exp == AppendEpisode(experience[name], pol_params)
       IN  /\ experience' = [experience EXCEPT ![name] = exp]
           /\ StartJob(name, polopt_fn, FALSE, Len(exp))
    /\ robot_users' = robot_users \ {[thread |-> "main", task |-> name]}
    /\ mainpc' = "loop"
    /\ tasks' = Append(tasks, name)
    /\ UNCHANGED <<task_list, configured, config, stored, task_id_bound,
                   playback, dequeues, compiles, policy, loss_fn, task_state,
                   state, name, pol, polopt_fn, next_task, env_params,
                   server_tasks, passes, trained_after, done_puts>>

\* lines 315-339: apply_controller(env, pol, H, preprocess), append_episode,
\* threading.Thread(target=polopt_fn, args=(name, spec, tasks)).start().
\* pol_params is [] for the exploration policy, which has no `params`
\* (lines 327-328).
CollectEpisode ==
    /\ mainpc = "apply_controller"
    /\ LET pol_params == IF pol = "policy" THEN policy[name] ELSE <<>>
           exp == AppendEpisode(experience[name], pol_params)
       IN  /\ experience' = [experience EXCEPT ![name] = exp]
           /\ StartJob(name, polopt_fn, FALSE, Len(exp))
    /\ robot_users' = robot_users \ {[thread |-> "main", task |-> name]}
    /\ mainpc' = "loop"
    /\ UNCHANGED <<task_list, configured, config, stored, task_id_bound,
                   playback, dequeues, compiles, policy, loss_fn, task_state,
                   tasks, state, name, pol, polopt_fn, next_task, env_params,
                   server_tasks, passes, trained_after, done_puts>>

(***************************************************************************)
(* mc_pilco_polopt (lines 65-151), run by job k of task t                  *)
(***************************************************************************)
JobAt(t, k, fn, pc) ==
    /\ t \in Range(task_list)
    /\ jobs[t][k].fn = fn
    /\ jobs[t][k].pc = pc

\* line 78: `if state != 'init'` reads the module global `state`
ReadState(t, k) ==
    /\ JobAt(t, k, "mc_pilco_polopt", "check_state")
    /\ jobs' = [jobs EXCEPT
           ![t][k].pc = IF state # "init" THEN "train_dynamics"
                        ELSE "check_n_opt"]
    /\ UNCHANGED <<task_list, configured, config, stored, task_id_bound,
                   playback, dequeues, compiles, experience, policy, loss_fn,
                   task_state, tasks, state, name, pol, polopt_fn, mainpc,
                   next_task, env_params, robot_users, server_tasks, passes,
                   trained_after, done_puts>>

\* variant of TrainDynamics: the job drives the robot to gather data
TrainDynamicsOnRobot(t, k) ==
    /\ JobAt(t, k, "mc_pilco_polopt", "train_dynamics")
    /\ \E outcome \in {"ok", "train_raises", "compile_raises"} :
          IF outcome = "train_raises"
          THEN /\ jobs' = [jobs EXCEPT ![t][k].pc = "raised"]
               /\ UNCHANGED <<trained_after, task_state, loss_fn, compiles>>
          ELSE /\ trained_after' =
                      [trained_after EXCEPT ![t] = @ \cup {jobs[t][k].ep}]
               /\ IF loss_fn[t]
                  THEN /\ outcome = "ok"
                       /\ UNCHANGED <<task_state, loss_fn, compiles>>
                  ELSE /\ task_state' =
                              [task_state EXCEPT ![t] = "compile_polopt"]
                       /\ compiles' = [compiles EXCEPT ![t] = Incr(@)]
                       /\ loss_fn' = [loss_fn EXCEPT ![t] = (outcome = "ok")]
               /\ jobs' = [jobs EXCEPT ![t][k].pc =
                      IF outcome = "ok" THEN "update_polopt" ELSE "raised"]
    /\ robot_users' = robot_users \cup {[thread |-> "job", task |-> t]}
    /\ UNCHANGED <<task_list, configured, config, stored, task_id_bound,
                   playback, dequeues, experience, policy, tasks,
                   state, name, pol, polopt_fn, mainpc, next_task, env_params,
                   server_tasks, passes, done_puts>>

\* variant of TrainDynamics: the compiled objective is not kept (set_objective is skipped)
TrainDynamicsNoCache(t, k) ==
    /\ JobAt(t, k, "mc_pilco_polopt", "train_dynamics")
    /\ \E outcome \in {"ok", "train_raises", "compile_raises"} :
          IF outcome = "train_raises"
          THEN /\ jobs' = [jobs EXCEPT ![t][k].pc = "raised"]
               /\ UNCHANGED <<trained_after, task_state, loss_fn, compiles>>
          ELSE /\ trained_after' =
                      [trained_after EXCEPT ![t] = @ \cup {jobs[t][k].ep}]
               /\ IF loss_fn[t]
                  THEN /\ outcome = "ok"
                       /\ UNCHANGED <<task_state, loss_fn, compiles>>
                  ELSE /\ task_state' =
                              [task_state EXCEPT ![t] = "compile_polopt"]
                       /\ compiles' = [compiles EXCEPT ![t] = Incr(@)]
                       /\ loss_fn' = [loss_fn EXCEPT ![t] = FALSE]
               /\ jobs' = [jobs EXCEPT ![t][k].pc =
                      IF outcome = "ok" THEN "update_polopt" ELSE "raised"]
    /\ UNCHANGED <<task_list, configured, config, stored, task_id_bound,
                   playback, dequeues, experience, policy, tasks,
                   state, name, pol, polopt_fn, mainpc, next_task, env_params,
                   robot_users, server_tasks, passes, done_puts>>

\* lines 79-120: train_dynamics; if optimizer.loss_fn is None the objective
\* is compiled (task_state 'compile_polopt') and set.  Nothing catches an
\* exception of either step: it ends the thread.
TrainDynamics(t, k) ==
    /\ JobAt(t, k, "mc_pilco_polopt", "train_dynamics")
    /\ \E outcome \in {"ok", "train_raises", "compile_raises"} :
          IF outcome = "train_raises"
          THEN /\ jobs' = [jobs EXCEPT ![t][k].pc = "raised"]
               /\ UNCHANGED <<trained_after, task_state, loss_fn, compiles>>
          ELSE /\ trained_after' =
                      [trained_after EXCEPT ![t] = @ \cup {jobs[t][k].ep}]
               /\ IF loss_fn[t]
                  THEN /\ outcome = "ok"
                       /\ UNCHANGED <<task_state, loss_fn, compiles>>
                  ELSE /\ task_state' =
                              [task_state EXCEPT ![t] = "compile_polopt"]
                       /\ compiles' = [compiles EXCEPT ![t] = Incr(@)]
                       /\ loss_fn' = [loss_fn EXCEPT ![t] = (outcome = "ok")]
               /\ jobs' = [jobs EXCEPT ![t][k].pc =
                      IF outcome = "ok" THEN "update_polopt" ELSE "raised"]
    /\ UNCHANGED <<task_list, configured, config, stored, task_id_bound,
                   playback, dequeues, experience, policy, tasks,
                   state, name, pol, polopt_fn, mainpc, next_task, env_params,
                   robot_users, server_tasks, passes, done_puts>>

\* line 123
UpdatePolopt(t, k) ==
    /\ JobAt(t, k, "mc_pilco_polopt", "update_polopt")
    /\ task_state' = [task_state EXCEPT ![t] = "update_polopt"]
    /\ jobs' = [jobs EXCEPT ![t][k].pc = "minimize"]
    /\ UNCHANGED <<task_list, configured, config, stored, task_id_bound,
                   playback, dequeues, compiles, experience, policy, loss_fn,
                   tasks, state, name, pol, polopt_fn, mainpc, next_task,
                   env_params, robot_users, server_tasks, passes,
                   trained_after, done_puts>>

\* lines 125-142: optimizer.minimize updates the policy in place; an
\* exception of the optimizer ends the thread
Minimize(t, k) ==
    /\ JobAt(t, k, "mc_pilco_polopt", "minimize")
    /\ \E outcome \in {"ok", "minimize_raises"} :
          IF outcome = "ok"
          THEN /\ policy' = [policy EXCEPT ![t] = <<Incr(@[1])>>]
               /\ task_state' = [task_state EXCEPT ![t] = "ready"]
               /\ passes' = [passes EXCEPT ![t] = Incr(@)]
               /\ jobs' = [jobs EXCEPT ![t][k].pc = "check_n_opt"]
          ELSE /\ jobs' = [jobs EXCEPT ![t][k].pc = "raised"]
               /\ UNCHANGED <<policy, task_state, passes>>
    /\ UNCHANGED <<task_list, configured, config, stored, task_id_bound,
                   playback, dequeues, compiles, experience, loss_fn, tasks,
                   state, name, pol, polopt_fn, mainpc, next_task, env_params,
                   robot_users, server_tasks, trained_after, done_puts>>

\* lines 144-147
CheckNOpt(t, k) ==
    /\ JobAt(t, k, "mc_pilco_polopt", "check_n_opt")
    /\ task_state' =
           IF n_polopt_iters(experience[t]) >= config[t].n_opt
           THEN [task_state EXCEPT ![t] = "done"]
           ELSE task_state
    /\ jobs' = [jobs EXCEPT ![t][k].pc = "put"]
    /\ UNCHANGED <<task_list, configured, config, stored, task_id_bound,
                   playback, dequeues, compiles, experience, policy, loss_fn,
                   tasks, state, name, pol, polopt_fn, mainpc, next_task,
                   env_params, robot_users, server_tasks, passes,
                   trained_after, done_puts>>

\* variant of Put: the job puts its task on the queue twice
PutTwice(t) ==
    /\ tasks' = Append(Append(tasks, t), t)
    /\ done_puts' = [done_puts EXCEPT
           ![t] = IF task_state[t] = "done" THEN Incr(@) ELSE @]

\* task_queue.put((task_name, task_spec))
Put(t) ==
    /\ tasks' = Append(tasks, t)
    /\ done_puts' = [done_puts EXCEPT
           ![t] = IF task_state[t] = "done" THEN Incr(@) ELSE @]

\* lines 148-151: the put is unconditional; the thread ends
PutTask(t, k) ==
    /\ JobAt(t, k, "mc_pilco_polopt", "put")
    /\ Put(t)
    /\ jobs' = [jobs EXCEPT ![t][k] = Idle]
    /\ UNCHANGED <<task_list, configured, config, stored, task_id_bound,
                   playback, dequeues, compiles, experience, policy, loss_fn,
                   task_state, state, name, pol, polopt_fn, mainpc, next_task,
                   env_params, robot_users, server_tasks, passes,
                   trained_after>>

(***************************************************************************)
(* http_polopt (lines 154-189), run by job k of task t; the call of line   *)
(* 267 runs in the main thread (sync), the others in their own thread      *)
(***************************************************************************)
\* lines 156-168: GET get_task_init_status, POST init_task if NOT FOUND
GetStatus(t, k) ==
    /\ JobAt(t, k, "http_polopt", "get_status")
    /\ server_tasks' = server_tasks \cup {t}
    /\ jobs' = [jobs EXCEPT ![t][k].pc = "optimize"]
    /\ UNCHANGED <<task_list, configured, config, stored, task_id_bound,
                   playback, dequeues, compiles, experience, policy, loss_fn,
                   task_state, tasks, state, name, pol, polopt_fn, mainpc,
                   next_task, env_params, robot_users, passes, trained_after,
                   done_puts>>

\* lines 173-187: POST optimize, pickle.loads of the answer, set_params.
\* pickle.loads raises on a malformed answer and the exception ends the
\* calling thread.
Optimize(t, k) ==
    /\ JobAt(t, k, "http_polopt", "optimize")
    /\ \E response \in {"pol_params", "malformed"} :
          IF response = "pol_params"
          THEN /\ policy' = [policy EXCEPT ![t] = <<Incr(@[1])>>]
               /\ passes' = [passes EXCEPT ![t] = Incr(@)]
               /\ trained_after' =
                      [trained_after EXCEPT ![t] = @ \cup {jobs[t][k].ep}]
               /\ jobs' = [jobs EXCEPT ![t][k].pc = "put"]
               /\ UNCHANGED mainpc
          ELSE /\ jobs' = [jobs EXCEPT ![t][k].pc = "raised"]
               /\ mainpc' = IF jobs[t][k].sync THEN "raised" ELSE mainpc
               /\ UNCHANGED <<policy, passes, trained_after>>
    /\ UNCHANGED <<task_list, configured, config, stored, task_id_bound,
                   playback, dequeues, compiles, experience, loss_fn,
                   task_state, tasks, state, name, pol, polopt_fn, next_task,
                   env_params, robot_users, server_tasks, done_puts>>

\* line 189: task_queue.put((task_name, task_spec))
HttpPutTask(t, k) ==
    /\ JobAt(t, k, "http_polopt", "put")
    /\ Put(t)
    /\ jobs' = [jobs EXCEPT ![t][k] = Idle]
    /\ IF jobs[t][k].sync
       THEN /\ mainpc' = AfterRegistration
            /\ next_task' = next_task + 1
       ELSE UNCHANGED <<mainpc, next_task>>
    /\ UNCHANGED <<task_list, configured, config, stored, task_id_bound,
                   playback, dequeues, compiles, experience, policy, loss_fn,
                   task_state, state, name, pol, polopt_fn, env_params,
                   robot_users, server_tasks, passes, trained_after>>

(***************************************************************************)
(* Specification                                                           *)
(***************************************************************************)
MainStep ==
    \/ RegisterTask
    \/ ExitLoop
    \/ GetTask
    \/ SetLogfileRaises
    \/ CheckDone
    \/ LoadPolicy
    \/ CollectEpisode

JobStep(t, k) ==
    \/ ReadState(t, k)
    \/ TrainDynamics(t, k)
    \/ UpdatePolopt(t, k)
    \/ Minimize(t, k)
    \/ CheckNOpt(t, k)
    \/ PutTask(t, k)
    \/ GetStatus(t, k)
    \/ Optimize(t, k)
    \/ HttpPutTask(t, k)

Next ==
    \/ MainStep
    \/ \E t \in Names, k \in 1..Slots : JobStep(t, k)

Spec == Init /\ [][Next]_vars

\* The same program with no end to the episodes followed: a task's
\* experience and counters stay at their last followed value once
\* MaxEpisodes is passed.  Every thread that can run keeps being scheduled.
LiveMainStep ==
    \/ RegisterTask
    \/ ExitLoop
    \/ Dequeue
    \/ SetLogfileRaises
    \/ CheckDone
    \/ LoadPolicy
    \/ CollectEpisode

LiveNext ==
    \/ LiveMainStep
    \/ \E t \in Names, k \in 1..Slots : JobStep(t, k)

LiveSpec ==
    /\ Init
    /\ [][LiveNext]_vars
    /\ WF_vars(LiveMainStep)
    /\ \A t \in Names, k \in 1..Slots : WF_vars(JobStep(t, k))

TypeOK ==
    /\ mainpc \in {"populate", "http_polopt", "loop", "check_done",
                   "load_policy", "apply_controller", "exited", "raised"}
    /\ DOMAIN task_state \subseteq Range(task_list)
    /\ \A t \in DOMAIN task_state :
          task_state[t] \in {"init", "compile_polopt", "update_polopt",
                             "ready", "done"}
    /\ state \in {None, "init", "compile_polopt", "update_polopt", "ready",
                  "done"}
    /\ \A t \in Range(task_list) : Len(experience[t]) <= MaxEpisodes

(***************************************************************************)
(* Properties                                                              *)
(***************************************************************************)
Registered == DOMAIN task_state

\* C1: in every reachable state each task has at most one optimization job
\* (mc_pilco_polopt or http_polopt invocation) in progress, and while it is
\* in progress the task is neither in the queue nor held by the loop, so
\* the next job of the task starts only after this one has put it back.
C1_AtMostOneJobPerTask ==
    \A t \in Range(task_list) :
        /\ Cardinality(ActiveJobs(t)) <= 1
        /\ \A k \in ActiveJobs(t) :
              /\ Occurrences(tasks, t) = 0
              /\ ~jobs[t][k].sync =>
                    ~(name = t /\ mainpc \in {"check_done", "load_policy",
                                              "apply_controller"})

\* a second job of a task is running after an earlier one completed a pass
C1_Witness ==
    \E t \in Range(task_list) :
        /\ passes[t] >= 1
        /\ \E k \in ActiveJobs(t) : jobs[t][k].pc = "minimize"

\* C2: the robot is driven only by the main thread, for one task at a time,
\* exactly while the loop is between env.init_params and the end of
\* apply_controller for that task, with that task's plant parameters; no
\* optimization job is ever among its users.
C2_RobotOnlyInCollection ==
    /\ \A u \in robot_users : u.thread = "main"
    /\ Cardinality({u.task : u \in robot_users}) <= 1
    /\ IF mainpc = "apply_controller"
       THEN /\ robot_users = {[thread |-> "main", task |-> name]}
            /\ env_params = name
       ELSE robot_users = {}

\* the loop drives the robot for one task while a job of the other task, a
\* local one, is optimizing
C2_Witness ==
    /\ mainpc = "apply_controller"
    /\ robot_users # {}
    /\ \E t \in Range(task_list) \ {name} :
          \E k \in ActiveJobs(t) : jobs[t][k].pc = "update_polopt"

\* the steps of the path init -> ready -> training -> compiling_optimizer
\* (optional) -> optimizing -> ready -> ... -> done; training is no recorded
\* state of its own, compile_polopt is compiling_optimizer and update_polopt
\* is optimizing
PathStep(from, to) ==
    \/ to = from
    \/ from = "init" /\ to = "ready"
    \/ from = "ready" /\ to \in {"compile_polopt", "update_polopt", "done"}
    \/ from = "compile_polopt" /\ to = "update_polopt"
    \/ from = "update_polopt" /\ to = "ready"

\* C3: every change of a task's recorded state is a step of the path
\* init -> ready -> training -> compiling_optimizer (optional, at most
\* once) -> optimizing -> ready -> ... -> done: init is left only to ready,
\* and done is never left.
C3_StateFollowsPath ==
    [][\A t \in Registered : PathStep(task_state[t], task_state'[t])]_vars

\* C4 as claimed: no step puts a task on the queue in a state where its
\* recorded state is already done.
C4_NoEnqueueOnceDone ==
    [][\A t \in Registered :
          task_state[t] = "done" =>
              Occurrences(tasks', t) <= Occurrences(tasks, t)]_vars

\* C4 as amended: a task whose recorded state is done is put on the queue
\* exactly once more, by the job that marked it done; once that put is made
\* the task has no job left, and once the loop has taken that entry the task
\* never reappears in the queue.
C4_DoneEnqueuedOnce ==
    \A t \in Registered :
        task_state[t] = "done" =>
            /\ done_puts[t] <= 1
            /\ done_puts[t] = 0 =>
                  /\ Cardinality(ActiveJobs(t)) = 1
                  /\ Occurrences(tasks, t) = 0
            /\ done_puts[t] = 1 =>
                  /\ ActiveJobs(t) = {}
                  /\ Occurrences(tasks, t) <= 1

\* the loop has taken the entry of a done task and passed it over; the task
\* is in the queue no more
C4_Witness ==
    \E t \in Registered :
        /\ task_state[t] = "done"
        /\ done_puts[t] = 1
        /\ name = t
        /\ mainpc = "loop"
        /\ Occurrences(tasks, t) = 0

\* every configured task is registered and its recorded state is done
EveryTaskDone ==
    /\ Registered = Range(task_list)
    /\ \A t \in Registered : task_state[t] = "done"

\* an exception has ended the main thread or an optimization job
SomeThreadRaised ==
    \/ mainpc = "raised"
    \/ \E t \in Range(task_list), k \in 1..Slots : jobs[t][k].pc = "raised"

\* C5: with fair scheduling, in a run whose loop runs (task_id resolves, no
\* task is named 'done') and in which no thread raises, every configured
\* task eventually reaches the state done, whichever strategy serves it.
C5_EveryTaskReachesDone ==
    (task_id_bound /\ "done" \notin Range(task_list))
        => <>(SomeThreadRaised \/ EveryTaskDone)

\* C6: the loop ends when every task's recorded state is done: at the loop
\* test with all tasks done the loop exits, and it has not exited while some
\* task is not done.  Stated for configurations in which no task is named
\* 'done'.
C6_LoopEndsWhenAllDone ==
    "done" \notin Range(task_list) =>
        /\ (mainpc = "loop" /\ EveryTaskDone) => ENABLED ExitLoop
        /\ mainpc = "exited" => EveryTaskDone

\* C7: a task's recorded state becomes done exactly when the number of its
\* completed optimization passes reaches n_opt: at the step that marks it
\* done the number equals n_opt, and it is never done with fewer.
C7_DoneAtNOptPasses ==
    [][\A t \in Registered :
          /\ (task_state[t] # "done" /\ task_state'[t] = "done")
                => passes'[t] = config[t].n_opt
          /\ task_state'[t] = "done" => passes'[t] >= config[t].n_opt]_vars

\* exploration episodes record the empty parameter list
Explored(exp) == Len(exp) - n_polopt_iters(exp)

\* the loop has counted an exploration trial of t whose episode is not yet
\* appended
TrialInProgress(t) ==
    IF name = t /\ mainpc = "apply_controller" /\ pol = "RandPolicy"
    THEN 1 ELSE 0

\* C8: for a fresh task configured with N > 0 initial random trials, the
\* first N dequeues act with the exploration policy and every later one
\* with the learned policy, and the remaining-trials counter goes down by
\* one per exploration dequeue and is never negative.
C8_FirstNDequeuesExplore ==
    \A t \in Range(task_list) :
        (stored[t] = <<>> /\ configured[t] > 0) =>
            LET exp == experience[t]
                k == Explored(exp)
            IN  /\ \A i \in 1..Len(exp) : (exp[i] = <<>>) <=> (i <= k)
                /\ k <= configured[t]
                /\ n_polopt_iters(exp) > 0 => k = configured[t]
                /\ config[t].initial_random_trials + k + TrialInProgress(t)
                       = configured[t]
                /\ config[t].initial_random_trials >= 0

\* Scenario A: one fresh task, 4 initial random trials, n_opt = 1, local
\* strategy
ScenarioA(t) ==
    /\ task_list = <<t>>
    /\ configured[t] = 4
    /\ config[t].n_opt = 1
    /\ config[t].polopt_fn = "mc_pilco_polopt"
    /\ stored[t] = <<>>

C10_RemoteCallBeforeFirstEpisode ==
    \A t \in Registered :
        Len(stored[t]) > 0 =>
            /\ \A k \in ActiveJobs(t) :
                  jobs[t][k].sync => (mainpc = "http_polopt"
                                      /\ experience[t] = stored[t])
            /\ Len(stored[t]) \in trained_after[t]
                  \/ (/\ experience[t] = stored[t]
                      /\ \/ \E k \in 1..Slots : jobs[t][k].sync
                         \/ mainpc = "raised")

\* an episode has been collected for a task that started from stored
\* experience
C10_Witness ==
    \E t \in Registered :
        /\ Len(stored[t]) > 0
        /\ Len(experience[t]) > Len(stored[t])

(***************************************************************************)
(* C11..C20                                                                *)
(***************************************************************************)
\* some entry of the queue is for task t
InQueue(t) == Occurrences(tasks, t) > 0

\* C11: when the remote service answers the optimize request of a task with
\* a malformed response, the task's policy parameters are unchanged and the
\* task is put back on the queue.
C11_MalformedResponseRequeues ==
    [][\A t \in Range(task_list), k \in 1..Slots :
          (jobs[t][k].pc = "optimize" /\ jobs'[t][k].pc = "raised")
              => /\ policy'[t] = policy[t]
                 /\ Occurrences(tasks', t) > 0]_vars

\* The program with the main thread always scheduled and no assumption on
\* the progress of the optimization threads: a job may take for ever.
LoopFairSpec ==
    /\ Init
    /\ [][LiveNext]_vars
    /\ WF_vars(LiveMainStep)

\* C12: with two tasks configured, a task that is in the queue is eventually
\* dequeued by the loop, whether or not the other task's optimization job
\* ever finishes.
C12_QueuedTaskEventuallyDequeued ==
    \A t \in Names :
        (Len(task_list) = 2 /\ InQueue(t))
            ~> (name = t /\ mainpc = "check_done")

\* C13: when a local optimization job fails (model training, objective
\* compilation or optimizer run), the task's recorded state is the one it
\* had before the job started and the task is put back on the queue.
C13_LocalFailureRestoresAndRequeues ==
    [][\A t \in Range(task_list), k \in 1..Slots :
          (/\ jobs[t][k].fn = "mc_pilco_polopt"
           /\ Active(jobs[t][k])
           /\ jobs'[t][k].pc = "raised")
              => /\ task_state'[t] = jobs[t][k].before
                 /\ Occurrences(tasks', t) > 0]_vars

\* the loop holds task t, dequeued while not done, and has not appended the
\* episode of this iteration yet
EpisodePending(t) ==
    /\ name = t
    /\ mainpc \in {"check_done", "load_policy", "apply_controller"}
    /\ task_state[t] # "done"

\* C14: no episode is lost or duplicated: a task's episode count equals the
\* number of episodes loaded at start-up plus the number of its not-done
\* dequeues, the iteration in progress excepted; neither a job nor an
\* iteration for another task adds to it.
C14_EpisodesMatchDequeues ==
    \A t \in Registered :
        Len(experience[t]) =
            Len(stored[t]) + dequeues[t] - (IF EpisodePending(t) THEN 1 ELSE 0)

\* C15: for every task the compilation of the optimization objective
\* (state compile_polopt) is entered at most once over the whole run; later
\* passes find the objective cached and go from training to optimizing.
C15_CompileAtMostOnce ==
    \A t \in Range(task_list) : compiles[t] <= 1

\* a task served by the local strategy has completed two passes, the
\* second with the objective already compiled
C15_Witness ==
    \E t \in Registered :
        /\ config[t].polopt_fn = "mc_pilco_polopt"
        /\ Len(stored[t]) = 0
        /\ compiles[t] = 1
        /\ passes[t] >= 2

\* C16: when the playback flag is given, every episode is run with the
\* learned policy and nothing is trained: no exploration episode is
\* collected and no training or optimization pass takes place.
C16_PlaybackNeverTrains ==
    playback =>
        \A t \in Registered :
            /\ Explored(experience[t]) = 0
            /\ trained_after[t] = {}
            /\ passes[t] = 0

\* what an iteration of the loop can act on, its own variables name, state
\* and mainpc and the queue excepted
DoneFrame ==
    UNCHANGED <<config, experience, policy, loss_fn, task_state, jobs,
                env_params, robot_users, server_tasks, passes, trained_after,
                done_puts, dequeues, compiles, pol, polopt_fn>>

C18_TrainingDependsOnOwnTask ==
    [][\A t \in Range(task_list), k \in 1..Slots :
          (jobs[t][k].pc = "check_state" /\ jobs'[t][k].pc # "check_state")
              => ((jobs'[t][k].pc = "train_dynamics")
                      <=> (jobs[t][k].st # "init"))]_vars

\* the loop holds task t: it has taken it from the queue and not yet handed
\* it to a job or passed it over
Held(t) ==
    /\ name = t
    /\ mainpc \in {"check_done", "load_policy", "apply_controller"}

\* the places task t is in: entries of the queue, the loop, in-flight jobs
Tokens(t) ==
    Occurrences(tasks, t) + (IF Held(t) THEN 1 ELSE 0)
        + Cardinality(ActiveJobs(t))

\* no thread has ended with an exception
FailureFree ==
    /\ mainpc # "raised"
    /\ \A t \in Range(task_list), k \in 1..Slots : jobs[t][k].pc # "raised"

\* C19 as stated: in every state of a failure-free run each task is in
\* exactly one place: once in the queue, held by the loop, or inside one
\* in-flight job.
C19_ExactlyOneToken ==
    FailureFree => \A t \in Registered : Tokens(t) = 1

\* C19 as the program has it: a task is never in two places, so the queue
\* holds no task twice and is no longer than the number of tasks; in a
\* failure-free run a task is in no place only after it has become done and
\* the loop has consumed the queue entry its last job put.
C19_AtMostOneToken ==
    /\ \A t \in Registered :
          /\ Tokens(t) <= 1
          /\ Occurrences(tasks, t) <= 1
          /\ (FailureFree /\ Tokens(t) = 0)
                => (task_state[t] = "done" /\ done_puts[t] = 1)
    /\ Len(tasks) <= Len(task_list)

\* two tasks, no failure: one has been passed over as done and is in no
\* place, the other is inside its job
C19_Witness ==
    /\ FailureFree
    /\ \E t, u \in Registered :
          /\ t # u
          /\ task_state[t] = "done"
          /\ Tokens(t) = 0
          /\ ActiveJobs(u) # {}
          /\ Tokens(u) = 1

\* C20: a single task configured with zero random trials and the local
\* strategy leaves init through the job launched after its first episode,
\* so it is never marked done with no optimization pass having run.
C20_ZeroTrialsNeverDoneUntrained ==
    \A t \in Registered :
        (/\ Len(task_list) = 1
         /\ configured[t] = 0
         /\ config[t].polopt_fn = "mc_pilco_polopt"
         /\ task_state[t] = "done")
            => passes[t] >= 1

====
